---- MODULE Spec2Model ----
(***************************************************************************)
(* Hybrid retrieval / indexing engine of the file-based chatbot.           *)
(*                                                                         *)
(* State: the two PostgreSQL tables (documents, document_chunks) with      *)
(* their SERIAL sequences, the Redis bucket store behind LSHRS, the        *)
(* position and locals of one ingestion (handle_upload / preload) and of   *)
(* one LSHIndexer.index_documents run, the handle_upload call looping     *)
(* over its files, and the get_context_chunks, handle_clear_session,       *)
(* chunk_text, embed_texts or query_similar_chunks call that has just      *)
(* returned.                                                               *)
(***************************************************************************)
EXTENDS Integers, Sequences, FiniteSets, TLC

\* ------------------------------------------------------------------ bounds
\* Number of document rows ever inserted (the documents.id sequence stops here).
MaxDocs == 2
\* Largest top_k a caller passes to get_context_chunks.
MaxTopK == 2
\* Longest candidate list the bucket store hands back in one get_top_k call.
MaxCands == 2

\* Longest text handed to chunk_text (besides the docstring's example).
MaxTextLen == 5
\* Largest chunk_size and overlap handed to chunk_text.
MaxChunkSize == 5
\* Longest list of texts handed to embed_texts.
MaxTexts == 3
\* Longest file list a caller hands to handle_upload.
MaxFiles == 3

\* config.py:61 sets MAX_FILES_PER_SESSION = 5; scaled to 2 so that a list of
\* MaxFiles files is cut.
MAX_FILES_PER_SESSION == 2
\* embeddings.py:41 sets BATCH_SIZE = 100 (texts per gateway call); scaled
\* to 2 so that the 3-chunk file spans two gateway calls.
EMBED_BATCH_SIZE == 2
\* lsh_indexer.py:122 sets BATCH_SIZE = 1000; scaled to 2 so that the
\* 3-chunk file below spans two batches (a full one and a short one).
BATCH_SIZE == 2
\* config.py:56 LSH_SIMILARITY_THRESHOLD = 0.7, in hundredths.
LSH_SIMILARITY_THRESHOLD == 70
\* embeddings.py:44, attempts of one gateway call
MAX_RETRIES == 3
\* embeddings.py:45, seconds slept after the first failed attempt
RETRY_DELAY == 1
\* lsh_indexer.py:197, get_top_k(query_embedding, topk=50), scaled down
OVERFETCH == 2
\* Similarities (in hundredths) LSHRS may attach to a candidate it returns
\* as an (id, similarity) tuple: below, at and above the threshold.
SimLevels == {69, 70, 100}

NULL == "NULL"
Sessions == {"s1", "s2"}
\* Chunk texts and the questions, and the vector the embedding gateway
\* gives each text (the gateway is a black box: a fixed text -> vector map).
Texts == {"a", "b", "ab"}
Questions == {"a", "b"}
Embed(t) == CASE t = "a" -> <<1, 0>>
              [] t = "b" -> <<0, 1>>
              [] OTHER   -> <<1, 1>>
\* What chunk_text yields for the files a user may upload (non-empty lists).
Files == { <<"a">>, <<"a", "ab", "b">> }

VARIABLES
    documents,        \* rows of table documents
    document_chunks,  \* rows of table document_chunks
    next_document_id, \* documents.id SERIAL
    next_chunk_id,    \* document_chunks.id SERIAL
    lsh_index,        \* chunk ids that have an entry in the bucket store
    written,          \* history: ids for which lsh.index returned successfully
    up,               \* handle_upload: position and locals for the current file
    ix,               \* index_documents: position and locals of the current run
    qr,               \* the get_context_chunks call that has just returned
    hu,               \* handle_upload: the call's loop over its files
    cl,               \* the handle_clear_session call that has just returned
    call,             \* the chunk_text / embed_texts / query_similar_chunks
                      \* call that has just returned
    em                \* embed_texts / embed_query: position in the retry loop

vars == <<documents, document_chunks, next_document_id, next_chunk_id,
          lsh_index, written, up, ix, qr, hu, cl, call, em>>

\* ----------------------------------------------------------------- helpers
Min(a, b) == IF a <= b THEN a ELSE b

Range(s) == { s[i] : i \in 1..Len(s) }

RECURSIVE Flatten(_)
Flatten(ss) == IF ss = <<>> THEN <<>> ELSE Head(ss) \o Flatten(Tail(ss))

\* A finite set of integers as an ascending sequence.
RECURSIVE SortedIds(_)
SortedIds(S) ==
    IF S = {} THEN <<>>
    ELSE LET m == CHOOSE x \in S : \A y \in S : x <= y
         IN  <<m>> \o SortedIds(S \ {m})

\* Sequences of distinct elements of S, of length at most n.
RECURSIVE DistinctSeqs(_, _)
DistinctSeqs(S, n) ==
    IF n = 0 \/ S = {} THEN { <<>> }
    ELSE { <<>> } \cup
         UNION { { <<x>> \o s : s \in DistinctSeqs(S \ {x}, n - 1) } : x \in S }

Perms(S) == { s \in DistinctSeqs(S, Cardinality(S)) : Len(s) = Cardinality(S) }

DocRow(id) == CHOOSE d \in documents : d.id = id
DocExists(id) == \E d \in documents : d.id = id
ChunkRow(id) == CHOOSE c \in document_chunks : c.id = id
ChunkExists(id) == \E c \in document_chunks : c.id = id
ChunksOf(doc_id) == { c \in document_chunks : c.document_id = doc_id }
\* ids of a document's chunks in chunk_index order (chunk_index is 0-based
\* and unique per document: unique_chunk_per_document)
ChunkIdSeq(doc_id) ==
    [i \in 1..Cardinality(ChunksOf(doc_id)) |->
        (CHOOSE c \in ChunksOf(doc_id) : c.chunk_index = i - 1).id]

NoQuery == [outcome |-> "none"]
\* result: how the last file ended ("ok"; "count_mismatch" and "error" are
\* the messages appended to errors).
IdleUpload == [pc |-> "idle", result |-> "none", chunks |-> <<>>,
               embeddings |-> <<>>, document_id |-> 0, session_id |-> NULL,
               is_preloaded |-> FALSE]
IdleIndex == [pc |-> "idle", session_id |-> NULL, groups |-> <<>>, g |-> 1,
              i |-> 0, indexed_count |-> 0, calls |-> <<>>, ret |-> -1,
              dropped |-> FALSE, attempts |-> 0]

\* handle_upload's locals: files_to_process = len(files_to_process), todo =
\* files of files_to_process still to come, attempted = files the loop has
\* entered, errors = len(errors).
IdleCall == [pc |-> "idle", session_id |-> NULL, files_to_process |-> 0,
             todo |-> 0,
             attempted |-> 0, success_count |-> 0, errors |-> 0]
NoClear == [outcome |-> "none"]
NoCall == [fn |-> "none"]
NoEmbed == [pc |-> "idle"]
\* No call is between its effect and its return.
Quiescent == qr = NoQuery /\ cl = NoClear /\ call = NoCall /\ em = NoEmbed

Init ==
    /\ documents = {}
    /\ document_chunks = {}
    /\ next_document_id = 1
    /\ next_chunk_id = 1
    /\ lsh_index = {}
    /\ written = {}
    /\ up = IdleUpload
    /\ ix = IdleIndex
    /\ qr = NoQuery
    /\ hu = IdleCall
    /\ cl = NoClear
    /\ call = NoCall
    /\ em = NoEmbed

\* ------------------------------------------------- ingestion (handle_upload)
\* genai.embed_content for one batch, by the shape of its response:
\*   "list"        not a dict; result["embedding"] is a list of vectors
\*   "dict_list"   a dict whose "embedding" is a list of vectors, one per text
\*   "dict_vector" a dict whose "embedding" is one vector (a batch of one text)
\* A vector is itself a list (of floats); a list of vectors is a nested list.
Vector(v) == [kind |-> "vector", v |-> v]
embed_content(batch, shape) ==
    [is_dict |-> shape # "list",
     embedding |-> IF shape = "dict_vector"
                   THEN Vector(Embed(batch[1]))
                   ELSE [kind |-> "list",
                         items |-> [i \in 1..Len(batch) |-> Vector(Embed(batch[i]))]]]

\* embeddings.py:112-117
batch_embeddings(result) ==
    IF result.is_dict THEN << result.embedding >> ELSE result.embedding.items

\* embeddings.py:120-130: a nested list is replaced by its first element.
flattened_embedding(emb) ==
    IF emb.kind = "list" /\ Len(emb.items) > 0 THEN emb.items[1] ELSE emb

\* range(0, len(texts), BATCH_SIZE): the batches of embed_texts.
Batches(texts) ==
    [k \in 1..((Len(texts) + EMBED_BATCH_SIZE - 1) \div EMBED_BATCH_SIZE) |->
        SubSeq(texts, (k - 1) * EMBED_BATCH_SIZE + 1,
               Min(k * EMBED_BATCH_SIZE, Len(texts)))]

\* embed_texts (Gemini path) when no gateway call fails: shapes[k] is the
\* response shape of the k-th batch.
embed_texts(texts, shapes) ==
    LET batches == Batches(texts)
        one(k) == LET be == batch_embeddings(embed_content(batches[k], shapes[k]))
                  IN  [i \in 1..Len(be) |-> flattened_embedding(be[i]).v]
    IN  Flatten([k \in 1..Len(batches) |-> one(k)])

\* What embed_texts hands back for one file's chunks when the gateway
\* answers every batch in the same shape.
embed_texts_result(texts, shape) ==
    embed_texts(texts, [k \in 1..Len(Batches(texts)) |-> shape])

\* chat_service.py:93 / preload_data.py:132 : the count check before storing
CountMismatch_Ignored(chunks, embeddings) == FALSE
CountMismatch(chunks, embeddings) == Len(chunks) # Len(embeddings)

\* chat_service.py:61: len(files[:MAX_FILES_PER_SESSION])
FilesToProcess(files) == Min(files, MAX_FILES_PER_SESSION)

\* chat_service.py:54-69: the empty list returns (0, ["No files provided"]);
\* otherwise the loop runs over files[:MAX_FILES_PER_SESSION].
handle_upload_call ==
    /\ hu.pc = "idle"
    /\ up.pc = "idle"
    /\ next_document_id <= MaxDocs
    /\ \E files \in 0..MaxFiles, session_id \in Sessions :
         hu' = IF files = 0
               THEN [IdleCall EXCEPT !.pc = "returned", !.errors = 1,
                                     !.session_id = session_id]
               ELSE [IdleCall EXCEPT
                        !.pc = "loop",
                        !.files_to_process = FilesToProcess(files),
                        !.todo = FilesToProcess(files),
                        !.session_id = session_id]
    /\ up' = IdleUpload
    /\ Quiescent /\ UNCHANGED <<qr, cl, call, em>>
    /\ UNCHANGED <<documents, document_chunks, next_document_id,
                   next_chunk_id, lsh_index, written, ix>>

\* chat_service.py:114-128: the file is over; success_count or errors grows
\* by one and the loop goes on with the next file.
FileDone_StopAtError(h, result) ==
    [h EXCEPT !.todo = IF result = "ok" THEN @ - 1 ELSE 0,
              !.success_count = IF result = "ok" THEN @ + 1 ELSE @,
              !.errors = IF result = "ok" THEN @ ELSE @ + 1]
FileDone(h, result) ==
    [h EXCEPT !.todo = @ - 1,
              !.success_count = IF result = "ok" THEN @ + 1 ELSE @,
              !.errors = IF result = "ok" THEN @ ELSE @ + 1]

\* The call's locals after a step of the per-file pipeline that left the
\* pipeline in u (a preloaded file belongs to no handle_upload call).
AfterFile(h, u) ==
    IF h.pc = "loop" /\ u.pc = "idle" THEN FileDone(h, u.result) ELSE h

\* Steps 1-3 of the per-file pipeline: read, chunk_text, embed_texts.
\* `file` is what chunk_text returns; <<>> makes line 86-87 raise.
IngestEmbed(session_id, is_preloaded, file, shape) ==
    /\ up.pc = "idle"
    /\ IF is_preloaded
       THEN hu.pc = "idle"
       ELSE hu.pc = "loop" /\ hu.todo > 0 /\ session_id = hu.session_id
    /\ next_document_id <= MaxDocs
    /\ IF file = <<>> \/ shape = "raise"
       THEN up' = [IdleUpload EXCEPT !.result = "error"]
       ELSE up' = [pc |-> "embedded", result |-> "none", chunks |-> file,
                   embeddings |-> embed_texts_result(file, shape),
                   document_id |-> 0, session_id |-> session_id,
                   is_preloaded |-> is_preloaded]
    /\ hu' = IF is_preloaded THEN hu
             ELSE AfterFile([hu EXCEPT !.attempted = @ + 1], up')
    /\ Quiescent /\ UNCHANGED <<qr, cl, call, em>>
    /\ UNCHANGED <<documents, document_chunks, next_document_id,
                   next_chunk_id, lsh_index, written, ix>>

handle_upload_embed ==
    \E s \in Sessions, file \in Files \cup {<<>>},
       shape \in {"list", "dict_list", "raise"} :
        IngestEmbed(s, FALSE, file, shape)

preload_documents_embed ==
    \E file \in Files, shape \in {"list", "dict_list", "raise"} :
        IngestEmbed(NULL, TRUE, file, shape)

\* db.insert_document: one committed INSERT; lsh_indexed takes DEFAULT FALSE.
insert_document(is_preloaded, session_id) ==
    /\ documents' = documents \cup
          { [id |-> next_document_id, is_preloaded |-> is_preloaded,
             session_id |-> session_id, lsh_indexed |-> FALSE] }
    /\ next_document_id' = next_document_id + 1

\* The count check and insert_document (chat_service.py:93-106).
handle_upload_insert_document ==
    /\ up.pc = "embedded"
    /\ \E db_ok \in BOOLEAN :
         IF CountMismatch(up.chunks, up.embeddings)
         THEN /\ up' = [IdleUpload EXCEPT !.result = "count_mismatch"]
              /\ UNCHANGED <<documents, next_document_id>>
         ELSE IF ~db_ok
         THEN /\ up' = [IdleUpload EXCEPT !.result = "error"]
              /\ UNCHANGED <<documents, next_document_id>>
         ELSE /\ insert_document(up.is_preloaded, up.session_id)
              /\ up' = [up EXCEPT !.pc = "insert_chunks",
                                  !.document_id = next_document_id]
    /\ hu' = AfterFile(hu, up')
    /\ Quiescent /\ UNCHANGED <<qr, cl, call, em>>
    /\ UNCHANGED <<document_chunks, next_chunk_id, lsh_index, written, ix>>

\* The rows db.insert_chunks commits: row idx pairs chunks[idx] with
\* embeddings[idx] (zip), ids from the SERIAL in list order.
insert_chunks_rows(document_id, chunks, embeddings) ==
    { [id |-> next_chunk_id + i - 1, document_id |-> document_id,
       chunk_index |-> i - 1, content |-> chunks[i],
       embedding |-> embeddings[i]] :
         i \in 1..Min(Len(chunks), Len(embeddings)) }

\* db.insert_chunks (chat_service.py:109): raises on a length mismatch, on a
\* database error, and when the parent row is gone (foreign key); the single
\* transaction then commits nothing.
handle_upload_insert_chunks ==
    /\ up.pc = "insert_chunks"
    /\ \E db_ok \in BOOLEAN :
         IF \/ Len(up.chunks) # Len(up.embeddings)
            \/ ~db_ok
            \/ ~DocExists(up.document_id)
         THEN /\ up' = [IdleUpload EXCEPT !.result = "error"]
              /\ UNCHANGED <<document_chunks, next_chunk_id>>
         ELSE /\ document_chunks' = document_chunks \cup
                    insert_chunks_rows(up.document_id, up.chunks, up.embeddings)
              /\ next_chunk_id' = next_chunk_id + Len(up.chunks)
              /\ up' = [IdleUpload EXCEPT !.result = "ok"]
    /\ hu' = AfterFile(hu, up')
    /\ Quiescent /\ UNCHANGED <<qr, cl, call, em>>
    /\ UNCHANGED <<documents, next_document_id, lsh_index, written, ix>>

\* chat_service.py:130-135: the loop is over, (success_count, errors) is
\* returned.
handle_upload_return ==
    /\ hu.pc = "loop"
    /\ hu.todo = 0
    /\ up.pc = "idle"
    /\ hu' = [hu EXCEPT !.pc = "returned"]
    /\ Quiescent /\ UNCHANGED <<qr, cl, call, em>>
    /\ UNCHANGED <<documents, document_chunks, next_document_id,
                   next_chunk_id, lsh_index, written, up, ix>>

\* The caller has taken the result; the call and its locals are gone.
handle_upload_returned ==
    /\ hu.pc = "returned"
    /\ hu' = IdleCall
    /\ up' = IdleUpload
    /\ Quiescent /\ UNCHANGED <<qr, cl, call, em>>
    /\ UNCHANGED <<documents, document_chunks, next_document_id,
                   next_chunk_id, lsh_index, written, ix>>

\* db.clear_session_documents: DELETE FROM documents WHERE session_id =
\* :session_id RETURNING id (db.py:359-363).
Cleared_SharedToo(d, session_id) == d.session_id \in {session_id, NULL}
Cleared(d, session_id) == d.session_id = session_id

\* The committed DELETE: chunks go with their document (ON DELETE CASCADE).
clear_session_documents(session_id) ==
    LET gone == { d \in documents : Cleared(d, session_id) }
    IN  /\ documents' = documents \ gone
        /\ document_chunks' =
              { c \in document_chunks : \A d \in gone : c.document_id # d.id }
        /\ cl' = [outcome |-> "ok", session_id |-> session_id,
                  deleted_count |-> Cardinality(gone)]

\* chat_service.handle_clear_session: the count of deleted documents, or
\* the exception of a failed (rolled back) DELETE. A call that deletes
\* nothing leaves every table as it was whatever runs beside it, and is
\* taken between the other calls only.
handle_clear_session ==
    /\ Quiescent
    /\ \E session_id \in Sessions, db_ok \in BOOLEAN :
         /\ \/ db_ok /\ \E d \in documents : Cleared(d, session_id)
            \/ hu.pc = "idle" /\ up.pc = "idle" /\ ix.pc = "idle"
         /\ IF db_ok
            THEN clear_session_documents(session_id)
            ELSE /\ cl' = [outcome |-> "raise", session_id |-> session_id,
                           deleted_count |-> 0]
                 /\ UNCHANGED <<documents, document_chunks>>
    /\ UNCHANGED <<next_document_id, next_chunk_id, lsh_index, written,
                   up, ix, qr, hu, call, em>>

\* The call has returned to its caller.
handle_clear_session_return ==
    /\ cl # NoClear
    /\ cl' = NoClear
    /\ UNCHANGED <<documents, document_chunks, next_document_id,
                   next_chunk_id, lsh_index, written, up, ix, qr, hu, call, em>>

\* ------------------------------------------- indexing (index_documents)
\* db.get_unindexed_chunks, the WHERE clause over a joined row (dc, d):
\*   d.lsh_indexed = FALSE OR d.lsh_indexed IS NULL [AND d.session_id = :s]
\* where AND binds tighter than OR.
UnindexedRow_IgnoringFlag(dc, d, session_id) == TRUE
UnindexedRow_OnlyMissing(dc, d, session_id) ==
    d.lsh_indexed = FALSE /\ dc.id \notin lsh_index
UnindexedRow(dc, d, session_id) ==
    \/ d.lsh_indexed = FALSE
    \/ /\ d.lsh_indexed \notin BOOLEAN      \* IS NULL
       /\ (session_id # NULL => d.session_id = session_id)

\* db.get_unindexed_chunks: (chunk_id, document_id, embedding) tuples,
\* ORDER BY dc.document_id, dc.chunk_index.
get_unindexed_chunks(session_id) ==
    LET rows == { dc \in document_chunks :
                    /\ DocExists(dc.document_id)
                    /\ UnindexedRow(dc, DocRow(dc.document_id), session_id) }
        doc_ids == SortedIds({ dc.document_id : dc \in rows })
        of(doc) == { dc \in rows : dc.document_id = doc }
        idxs(doc) == SortedIds({ dc.chunk_index : dc \in of(doc) })
        row(doc, idx) == CHOOSE dc \in of(doc) : dc.chunk_index = idx
    IN  Flatten([k \in 1..Len(doc_ids) |->
            [j \in 1..Len(idxs(doc_ids[k])) |->
                << row(doc_ids[k], idxs(doc_ids[k])[j]).id, doc_ids[k],
                   row(doc_ids[k], idxs(doc_ids[k])[j]).embedding >>]])

\* The document ids of a scan in order of first appearance.
RECURSIVE FirstSeen(_, _)
FirstSeen(rows, seen) ==
    IF rows = <<>> THEN <<>>
    ELSE IF Head(rows)[2] \in seen THEN FirstSeen(Tail(rows), seen)
    ELSE <<Head(rows)[2]>> \o FirstSeen(Tail(rows), seen \cup {Head(rows)[2]})

\* lsh_indexer.py:114-118: chunks_by_document, a dict in insertion order
\* whose values are the (chunk_id, embedding) pairs of one document.
chunks_by_document(unindexed_chunks) ==
    LET order == FirstSeen(unindexed_chunks, {})
        mine(doc) == SelectSeq(unindexed_chunks, LAMBDA r : r[2] = doc)
    IN  [k \in 1..Len(order) |->
            [document_id |-> order[k],
             chunks |-> [j \in 1..Len(mine(order[k])) |->
                            << mine(order[k])[j][1], mine(order[k])[j][3] >>]]]

\* A store call of the run (get_unindexed_chunks, lsh.index,
\* mark_document_as_indexed) has raised: lsh_indexer.py:106, 134 and 140
\* make the call once, outside any try block or loop of attempts, so the
\* exception leaves index_documents. attempts = calls made of the one that
\* raised.
Raised_Swallowed(run) ==
    [run EXCEPT !.attempts = 1,
                !.pc = IF run.g >= Len(run.groups) THEN "done" ELSE "batch",
                !.g = run.g + 1, !.i = 0]
Raised(run) == [run EXCEPT !.pc = "failed", !.attempts = 1]

\* lsh_indexer.py:105-118
index_documents_scan ==
    /\ ix.pc = "idle"
    /\ \E session_id \in Sessions \cup {NULL}, db_ok \in BOOLEAN :
         IF ~db_ok
         THEN ix' = [Raised(IdleIndex) EXCEPT !.session_id = session_id]
         ELSE LET unindexed_chunks == get_unindexed_chunks(session_id)
                  groups == chunks_by_document(unindexed_chunks)
              IN  IF Len(unindexed_chunks) = 0
                  THEN ix' = [IdleIndex EXCEPT !.pc = "done", !.ret = 0,
                                               !.session_id = session_id]
                  ELSE ix' = [IdleIndex EXCEPT !.pc = "batch",
                                               !.groups = groups,
                                               !.session_id = session_id]
    /\ Quiescent /\ UNCHANGED <<qr, cl, call, hu, em>>
    /\ UNCHANGED <<documents, document_chunks, next_document_id,
                   next_chunk_id, lsh_index, written, up>>

\* range(0, len(chunk_ids), BATCH_SIZE): is the batch at offset i the last?
LastBatch_AfterFirst(i, n) == TRUE
LastBatch(i, n) == i + BATCH_SIZE >= n

\* lsh_indexer.py:129-137: one lsh.index call. A failing call may have put
\* any proper prefix of the batch into the bucket store before raising.
index_documents_batch ==
    /\ ix.pc = "batch"
    /\ LET chunks == ix.groups[ix.g].chunks
           n == Len(chunks)
           batch_ids == [j \in 1..(Min(ix.i + BATCH_SIZE, n) - ix.i) |->
                            chunks[ix.i + j][1]]
       IN  \/ /\ lsh_index' = lsh_index \cup Range(batch_ids)
              /\ written' = written \cup Range(batch_ids)
              /\ ix' = [ix EXCEPT
                          !.calls = Append(@, batch_ids),
                          !.indexed_count = @ + Len(batch_ids),
                          !.i = @ + BATCH_SIZE,
                          !.pc = IF LastBatch(ix.i, n) THEN "mark" ELSE "batch"]
           \/ \E k \in 0..(Len(batch_ids) - 1) :
                /\ lsh_index' = lsh_index \cup Range(SubSeq(batch_ids, 1, k))
                /\ written' = written
                /\ ix' = Raised(ix)
    /\ Quiescent /\ UNCHANGED <<qr, cl, call, hu, em>>
    /\ UNCHANGED <<documents, document_chunks, next_document_id,
                   next_chunk_id, up>>

\* db.mark_document_as_indexed: UPDATE documents SET lsh_indexed = TRUE
\* WHERE id = :document_id (no row, no effect).
mark_document_as_indexed_Unscoped(document_id) ==
    documents' = { [d EXCEPT !.lsh_indexed = TRUE] : d \in documents }
mark_document_as_indexed(document_id) ==
    documents' = { IF d.id = document_id
                   THEN [d EXCEPT !.lsh_indexed = TRUE] ELSE d : d \in documents }

\* lsh_indexer.py:139-151: mark, then the next document or the return.
index_documents_mark ==
    /\ ix.pc = "mark"
    /\ \/ /\ mark_document_as_indexed(ix.groups[ix.g].document_id)
          /\ ix' = IF ix.g = Len(ix.groups)
                   THEN [ix EXCEPT !.pc = "done", !.ret = ix.indexed_count]
                   ELSE [ix EXCEPT !.pc = "batch", !.g = @ + 1, !.i = 0]
       \/ /\ ix' = Raised(ix)
          /\ UNCHANGED documents
    /\ Quiescent /\ UNCHANGED <<qr, cl, call, hu, em>>
    /\ UNCHANGED <<document_chunks, next_document_id, next_chunk_id,
                   lsh_index, written, up>>

\* The run is over (returned, or the exception reached the caller).
index_documents_return ==
    /\ ix.pc \in {"done", "failed"}
    /\ ix' = IdleIndex
    /\ Quiescent /\ UNCHANGED <<qr, cl, call, hu, em>>
    /\ UNCHANGED <<documents, document_chunks, next_document_id,
                   next_chunk_id, lsh_index, written, up>>

\* The bucket store is an external Redis: its keys can be dropped.
DropBucketStore ==
    /\ lsh_index # {}
    /\ lsh_index' = {}
    /\ ix' = IF ix.pc = "idle" THEN ix ELSE [ix EXCEPT !.dropped = TRUE]
    /\ Quiescent /\ UNCHANGED <<qr, cl, call, hu, em>>
    /\ UNCHANGED <<documents, document_chunks, next_document_id,
                   next_chunk_id, written, up>>

\* ---------------------------------------------- retrieval (get_context_chunks)
\* db.search_similar_chunks, WHERE clause (db.py:313-315)
Visible_AnySession(d, session_id) == TRUE
Visible(d, session_id) ==
    \/ d.is_preloaded = TRUE
    \/ d.session_id = session_id
    \/ (d.is_preloaded = FALSE /\ d.session_id = NULL)

\* pgvector's <-> is the Euclidean distance; its square orders the same way.
Dist2(u, v) == (u[1] - v[1]) * (u[1] - v[1]) + (u[2] - v[2]) * (u[2] - v[2])

\* Index of the last row a LIMIT top_k query over n rows returns.
Limit_OneShort(top_k, n) == Min(top_k, n) - 1
Limit(top_k, n) == Min(top_k, n)

\* db.search_similar_chunks (db.py:309-324): the rows (by chunk id, their
\* content is what is returned) in ascending distance, at most top_k. SQL
\* leaves the order of equidistant rows open: every admissible answer.
search_similar_chunks(query_embedding, session_id, top_k) ==
    LET vis == { c \in document_chunks :
                    Visible(DocRow(c.document_id), session_id) }
        ids == { c.id : c \in vis }
        dist(id) == Dist2(ChunkRow(id).embedding, query_embedding)
        n == Limit(top_k, Cardinality(ids))
    IN  { r \in DistinctSeqs(ids, n) :
            /\ Len(r) = n
            /\ \A i \in 1..(n - 1) : dist(r[i]) <= dist(r[i + 1])
            /\ \A id \in ids \ Range(r) : \A i \in 1..n : dist(r[i]) <= dist(id) }

\* A similarity s >= 0 is kept exactly as the fraction s^2 = n / d.
Hundredths(s) == [n |-> s * s, d |-> 10000]
SimGE(a, b) == a.n * b.d >= b.n * a.d
\* np.dot over vectors of any (equal) length
RECURSIVE DotUpTo(_, _, _)
DotUpTo(u, v, n) == IF n = 0 THEN 0 ELSE u[n] * v[n] + DotUpTo(u, v, n - 1)
Dot(u, v) == DotUpTo(u, v, Len(u))

\* lsh_indexer.py:226-230 (the model's vectors have no negative component)
CosineSimilarity(q, v) ==
    IF Dot(q, q) = 0 \/ Dot(v, v) = 0
    THEN [n |-> 0, d |-> 1]
    ELSE [n |-> Dot(q, v) * Dot(q, v), d |-> Dot(q, q) * Dot(v, v)]

\* lsh_indexer.py:242-245
AboveThreshold_Strict(sim) == ~SimGE(Hundredths(LSH_SIMILARITY_THRESHOLD), sim)
AboveThreshold(sim) == SimGE(sim, Hundredths(LSH_SIMILARITY_THRESHOLD))

\* list.sort(key = similarity, reverse = True): descending and stable.
RECURSIVE InsertDesc(_, _)
InsertDesc(sorted, x) ==
    IF sorted = <<>> THEN <<x>>
    ELSE IF SimGE(Head(sorted).sim, x.sim)
         THEN <<Head(sorted)>> \o InsertDesc(Tail(sorted), x)
         ELSE <<x>> \o sorted

SortDesc_Unsorted(s) == s
RECURSIVE SortDesc(_)
SortDesc(s) ==
    IF s = <<>> THEN <<>>
    ELSE InsertDesc(SortDesc(SubSeq(s, 1, Len(s) - 1)), s[Len(s)])

\* lsh_indexer.py:241-251: threshold filter, sort, [:top_k].
Ranked(reranked_results, top_k) ==
    LET filtered == SortDesc(SelectSeq(reranked_results,
                                       LAMBDA c : AboveThreshold(c.sim)))
    IN  SubSeq(filtered, 1, Min(top_k, Len(filtered)))

\* lsh_indexer.py:241-255: the ids of the ranked candidates.
RerankTail(reranked_results, top_k) ==
    [i \in 1..Len(Ranked(reranked_results, top_k)) |->
        Ranked(reranked_results, top_k)[i].id]

\* lsh_indexer.py:216-232: the manual rerank of the fetched (id, vector)
\* pairs, in the order they were fetched.
ManualRerank(query_embedding, fetched) ==
    [i \in 1..Len(fetched) |->
        [id |-> fetched[i][1],
         sim |-> CosineSimilarity(query_embedding, fetched[i][2])]]

\* lsh_indexer.py:234-236: (id, similarity) tuples taken as they come.
TupleResults(candidates_with_sim) ==
    [i \in 1..Len(candidates_with_sim) |->
        [id |-> candidates_with_sim[i][1],
         sim |-> Hundredths(candidates_with_sim[i][2])]]

\* What lsh.get_top_k(query, topk=50) may hand back: candidate lists over
\* the ids held in the bucket store (the approximate index may miss any).
Candidates == DistinctSeqs(lsh_index, MaxCands) \ { <<>> }

\* LSHIndexer._fetch_vectors_for_lshrs when the SELECT succeeds: the rows
\* that exist, in whatever order the database returns them.
FetchedVectors(candidate_ids) ==
    Perms({ id \in Range(candidate_ids) : ChunkExists(id) })

\* LSHIndexer.query_similar_chunks: every return the bucket store and the
\* vector fetch can make it take. `raised`: an exception left the method;
\* `ranked`: the (id, similarity) pairs behind the ids returned.
query_similar_chunks(query_embedding, top_k) ==
    LET Out(reranked_results) ==
            [raised |-> FALSE, lsh |-> "ok",
             ids |-> RerankTail(reranked_results, top_k),
             ranked |-> Ranked(reranked_results, top_k)]
        None(tag, raised) ==
            [raised |-> raised, lsh |-> tag, ids |-> <<>>, ranked |-> <<>>]
    IN  \* lsh.get_top_k raises (bucket store unreachable)
        { None("get_top_k_raised", TRUE) }
        \* line 199: no candidates
        \cup { None("empty", FALSE) }
        \* line 237: elements that are neither int nor 2-tuple
        \cup { None("malformed", FALSE) }
        \* line 212-232: ids only, manual rerank; the fetch swallows its errors
        \cup { None("fetch_failed", FALSE) : cands \in Candidates }
        \cup UNION { { Out(ManualRerank(query_embedding,
                          [i \in 1..Len(f) |-> << f[i], ChunkRow(f[i]).embedding >>])) :
                       f \in FetchedVectors(cands) } : cands \in Candidates }
        \* line 234-236: (id, similarity) tuples taken as they come
        \cup UNION { { Out(TupleResults(
                          [i \in 1..Len(cands) |-> << cands[i], sims[i] >>])) :
                       sims \in [1..Len(cands) -> SimLevels] } :
                     cands \in Candidates }

\* db.get_chunk_content_by_ids when the SELECT succeeds: the rows that
\* exist, in the order of the ids given (ORDER BY CASE id ...).
get_chunk_content_by_ids_Unchecked(chunk_ids) == chunk_ids
get_chunk_content_by_ids(chunk_ids) == SelectSeq(chunk_ids, ChunkExists)

\* retrieval.lsh_hybrid_search: session_id is only logged. `sims`: the
\* similarity query_similar_chunks had for each row returned.
lsh_hybrid_search(question, session_id, top_k) ==
    LET None(tag, raised) ==
            [raised |-> raised, rows |-> <<>>, sims |-> <<>>, lsh |-> tag]
        SimsOf(ranked) ==
            LET there == SelectSeq(ranked, LAMBDA c : ChunkExists(c.id))
            IN  [i \in 1..Len(there) |-> there[i].sim]
    IN  { None("embed_raised", TRUE) }
        \cup UNION { IF r.raised
                     THEN { None(r.lsh, TRUE) }
                     ELSE IF r.ids = <<>>
                     THEN { None(r.lsh, FALSE) }
                     ELSE { [raised |-> FALSE, lsh |-> r.lsh,
                             rows |-> get_chunk_content_by_ids(r.ids),
                             sims |-> SimsOf(r.ranked)],
                            \* get_chunk_content_by_ids swallows a database error
                            None("content_failed", FALSE) } :
                     r \in query_similar_chunks(Embed(question), top_k) }

\* The direct path: embed_query, then search_similar_chunks; either may raise.
DirectPath(question, session_id, top_k) ==
    { [outcome |-> "raise", rows |-> <<>>] }
    \cup { [outcome |-> "ok", rows |-> r] :
             r \in search_similar_chunks(Embed(question), session_id, top_k) }

\* The fallback of retrieval.py:106-120.
Fallback_Empty(question, session_id, top_k) ==
    { [outcome |-> "ok", rows |-> <<>>] }
Fallback(question, session_id, top_k) ==
    DirectPath(question, session_id, top_k)

\* retrieval.get_context_chunks: every return it can make.
get_context_chunks(question, session_id, top_k, use_lsh) ==
    IF question = ""
    THEN { [outcome |-> "ValueError", rows |-> <<>>, sims |-> <<>>,
            lsh |-> "off"] }
    ELSE IF use_lsh
    THEN UNION { IF h.raised
                 THEN { [outcome |-> d.outcome, rows |-> d.rows,
                         sims |-> <<>>, lsh |-> h.lsh] :
                          d \in Fallback(question, session_id, top_k) }
                 ELSE { [outcome |-> "ok", rows |-> h.rows, sims |-> h.sims,
                         lsh |-> h.lsh] } :
                 h \in lsh_hybrid_search(question, session_id, top_k) }
    ELSE { [outcome |-> d.outcome, rows |-> d.rows, sims |-> <<>>,
            lsh |-> "off"] :
             d \in DirectPath(question, session_id, top_k) }

\* One call of get_context_chunks, from entry to the value it is about to
\* return (qr); nothing else runs until it has returned. It reads the stores
\* only, and is taken while neither writer is mid-flight: every store state
\* a writer passes through is also the state a failed writer leaves behind,
\* so retrieval sees every store state all the same.
GetContextChunks ==
    /\ Quiescent
    /\ hu.pc = "idle"
    /\ up.pc = "idle"
    /\ ix.pc = "idle"
    /\ \E question \in Questions \cup {""}, session_id \in Sessions,
          top_k \in 1..MaxTopK, use_lsh \in BOOLEAN :
         \E res \in get_context_chunks(question, session_id, top_k, use_lsh) :
            qr' = [question |-> question, session_id |-> session_id,
                   top_k |-> top_k, use_lsh |-> use_lsh,
                   outcome |-> res.outcome, rows |-> res.rows,
                   sims |-> res.sims, lsh |-> res.lsh]
    /\ UNCHANGED <<documents, document_chunks, next_document_id,
                   next_chunk_id, lsh_index, written, up, ix, hu, cl, call, em>>

\* The call has returned to its caller.
GetContextChunksReturn ==
    /\ qr # NoQuery
    /\ qr' = NoQuery
    /\ UNCHANGED <<documents, document_chunks, next_document_id,
                   next_chunk_id, lsh_index, written, up, ix, hu, cl, call, em>>

\* ------------------------------------------------ chunking (chunk_text)
\* A text is a sequence of characters.
Alphabet == {" ", "a", "b"}
HelloWorld == <<"H", "e", "l", "l", "o", " ", "W", "o", "r", "l", "d">>
ChunkTexts ==
    UNION { [1..n -> Alphabet] : n \in 0..MaxTextLen } \cup { HelloWorld }

\* `not text or not text.strip()`
Blank_EmptyOnly(text) == text = <<>>
Blank(text) == \A i \in 1..Len(text) : text[i] = " "

\* text[start:end] of Python (0-based, end exclusive, clipped to the text)
Slice(text, start, end) == SubSeq(text, start + 1, Min(end, Len(text)))

\* chunking.py:66 , the step of the window
Step_NoOverlap(chunk_size, overlap) == chunk_size
Step_Skipping(chunk_size, overlap) == chunk_size + 1
Step(chunk_size, overlap) == chunk_size - overlap

\* chunking.py:69 , the break of the loop
Reached_Never(end, text_length) == FALSE
Reached(end, text_length) == end >= text_length

\* chunking.py:56-70 , the loop from `start` on
RECURSIVE ChunkLoop(_, _, _, _)
ChunkLoop(text, chunk_size, overlap, start) ==
    IF ~(start < Len(text)) THEN <<>>
    ELSE LET end == start + chunk_size
         IN  << Slice(text, start, end) >>
             \o (IF Reached(end, Len(text)) THEN <<>>
                 ELSE ChunkLoop(text, chunk_size, overlap,
                                start + Step(chunk_size, overlap)))

\* chunking.chunk_text: the list returned, or the ValueError raised
chunk_text(text, chunk_size, overlap) ==
    IF text = <<>> \/ Blank(text)
    THEN [raised |-> FALSE, chunks |-> <<>>]
    ELSE IF Len(text) <= chunk_size
    THEN [raised |-> FALSE, chunks |-> << text >>]
    ELSE IF chunk_size <= 0 \/ overlap < 0 \/ overlap >= chunk_size
    THEN [raised |-> TRUE, chunks |-> <<>>]
    ELSE [raised |-> FALSE, chunks |-> ChunkLoop(text, chunk_size, overlap, 0)]

\* One call of chunk_text, from entry to what it is about to return.
chunk_text_call ==
    /\ Quiescent
    /\ \E text \in ChunkTexts, chunk_size \in (-1)..MaxChunkSize,
          overlap \in (-1)..MaxChunkSize :
         LET r == chunk_text(text, chunk_size, overlap)
         IN  call' = [fn |-> "chunk_text", text |-> text,
                      chunk_size |-> chunk_size, overlap |-> overlap,
                      raised |-> r.raised, chunks |-> r.chunks]
    /\ UNCHANGED <<documents, document_chunks, next_document_id,
                   next_chunk_id, lsh_index, written, up, ix, qr, hu, cl, em>>

\* ------------------------------------------------ embedding (embed_texts)
TextLists == UNION { [1..n -> Texts] : n \in 1..MaxTexts }

\* One call of embed_texts (Gemini path) in which no gateway call fails.
\* The gateway answers a batch of one text in any shape and a batch of
\* several texts with a list of vectors.
embed_texts_call ==
    /\ Quiescent
    /\ \E texts \in TextLists :
         \E shapes \in [1..Len(Batches(texts)) ->
                            {"list", "dict_list", "dict_vector"}] :
            /\ \A k \in 1..Len(shapes) :
                  shapes[k] = "dict_vector" => Len(Batches(texts)[k]) = 1
            /\ call' = [fn |-> "embed_texts", texts |-> texts,
                        shapes |-> shapes,
                        embeddings |-> embed_texts(texts, shapes)]
    /\ UNCHANGED <<documents, document_chunks, next_document_id,
                   next_chunk_id, lsh_index, written, up, ix, qr, hu, cl, em>>

\* --------------------------- the retry loop (embed_texts, embed_query)
\* What the loop has done for one gateway call: an attempt and its outcome,
\* or a sleep and its length in seconds.
Attempted(attempt, ok) ==
    [ev |-> "attempt", attempt |-> attempt, ok |-> ok, delay |-> 0]
Slept(attempt, delay) ==
    [ev |-> "sleep", attempt |-> attempt, ok |-> FALSE, delay |-> delay]

\* embeddings.py:147, 234: delay = RETRY_DELAY * (2**attempt)
Delay_Constant(attempt) == RETRY_DELAY
Delay(attempt) == RETRY_DELAY * (2 ^ attempt)

\* embeddings.py:145, 232: `if attempt < MAX_RETRIES - 1` sleeps and goes
\* round again, the else branch raises.
MayRetry(attempt) == attempt < MAX_RETRIES - 1

\* embed_texts (Gemini path) is entered with a non-empty list of texts and
\* embed_query with a non-blank text: the loop over the batches starts at
\* the first batch, `for attempt in range(MAX_RETRIES)` at attempt 0.
\* embed_query makes one gateway call, which is its only "batch".
embed_enter ==
    /\ Quiescent
    /\ \/ \E texts \in TextLists :
            em' = [pc |-> "attempt", fn |-> "embed_texts",
                   batches |-> Batches(texts), i |-> 1, attempt |-> 0,
                   log |-> << <<>> >>, all_embeddings |-> <<>>,
                   result |-> <<>>]
       \/ \E text \in Texts :
            em' = [pc |-> "attempt", fn |-> "embed_query",
                   batches |-> << <<text>> >>, i |-> 1, attempt |-> 0,
                   log |-> << <<>> >>, all_embeddings |-> <<>>,
                   result |-> <<>>]
    /\ UNCHANGED <<documents, document_chunks, next_document_id,
                   next_chunk_id, lsh_index, written, up, ix, qr, hu, cl, call>>

\* One pass of the try block, embeddings.py:103-161 and 210-248:
\* genai.embed_content answers or raises. On an answer embed_texts extends
\* all_embeddings and breaks to the next batch (returning after the last)
\* and embed_query returns the vector. On an exception the loop sleeps if
\* another attempt is left and raises otherwise.
embed_attempt ==
    /\ em.pc = "attempt"
    /\ \E ok \in BOOLEAN :
         LET batch == em.batches[em.i]
             logged == [em EXCEPT !.log[em.i] = Append(@, Attempted(em.attempt, ok))]
             gathered == em.all_embeddings \o embed_texts(batch, <<"list">>)
         IN  em' =
               IF ok
               THEN IF em.i < Len(em.batches)
                    THEN [logged EXCEPT !.i = em.i + 1, !.attempt = 0,
                                        !.log = Append(@, <<>>),
                                        !.all_embeddings = gathered]
                    ELSE [logged EXCEPT !.pc = "returned",
                                        !.all_embeddings = gathered,
                                        !.result =
                                            IF em.fn = "embed_query"
                                            THEN Embed(batch[1]) ELSE gathered]
               ELSE IF MayRetry(em.attempt)
                    THEN [logged EXCEPT !.pc = "sleep"]
                    ELSE [logged EXCEPT !.pc = "raised"]
    /\ UNCHANGED <<documents, document_chunks, next_document_id,
                   next_chunk_id, lsh_index, written, up, ix, qr, hu, cl, call>>

\* time.sleep(delay), then the next value of `attempt`.
embed_sleep ==
    /\ em.pc = "sleep"
    /\ em' = [em EXCEPT !.pc = "attempt", !.attempt = em.attempt + 1,
                        !.log[em.i] = Append(@, Slept(em.attempt, Delay(em.attempt)))]
    /\ UNCHANGED <<documents, document_chunks, next_document_id,
                   next_chunk_id, lsh_index, written, up, ix, qr, hu, cl, call>>

\* The call has returned or raised to its caller.
embed_leave ==
    /\ em.pc \in {"returned", "raised"}
    /\ em' = NoEmbed
    /\ UNCHANGED <<documents, document_chunks, next_document_id,
                   next_chunk_id, lsh_index, written, up, ix, qr, hu, cl, call>>

\* ------------------------------------- reranking (query_similar_chunks)
\* Chunk ids the bucket store may name, and the vectors the vector store
\* may hold for them: with the query <<1, 0, 0, 0>> their cosine similarity
\* is 1, exactly 0.7 (7/10), 2/sqrt(10) and 0.
CandidateIds == 1..(MaxCands + 1)
QueryVector == <<1, 0, 0, 0>>
CandidateVectors == { <<1, 0, 0, 0>>, <<7, 1, 1, 7>>, <<2, 1, 1, 2>>, <<0, 1, 0, 0>> }

\* lsh_indexer.py:197: the topk that query_similar_chunks passes to
\* lsh.get_top_k, whatever its own top_k.
OverFetch_TopK(top_k) == top_k
OverFetch(top_k) == OVERFETCH

\* LSHRS.get_top_k(query, topk): at most topk distinct chunk ids (or as many
\* (id, similarity) tuples), possibly none.
get_top_k(topk) == DistinctSeqs(CandidateIds, topk)

\* lsh_indexer.py:199-201: `if not candidates_with_sim: return []`
NoCandidates(candidates_with_sim) == candidates_with_sim = <<>>

\* _fetch_vectors_for_lshrs(candidate_ids) as the manual rerank sees it:
\* the (id, vector) pairs of the candidates that have a row, none when the
\* query raised inside the helper (lsh_indexer.py:86-91).
reranking_candidates_Unfiltered(cands, vectors, found, db_ok) ==
    [i \in 1..Len(cands) |-> << cands[i], vectors[i] >>]
reranking_candidates(cands, vectors, found, db_ok) ==
    IF ~db_ok THEN <<>>
    ELSE LET kept == SelectSeq([i \in 1..Len(cands) |-> i], LAMBDA i : i \in found)
         IN  [j \in 1..Len(kept) |-> << cands[kept[j]], vectors[kept[j]] >>]

\* Calls of _fetch_vectors_for_lshrs made by one query_similar_chunks:
\* one on the list-of-ints branch (line 217), none elsewhere.
FetchCalls_Always(format) == 1
FetchCalls(format) == IF format = "ids" THEN 1 ELSE 0

\* What one call of query_similar_chunks has done when it returns.
QueryReturn(format, top_k, topk, cands, fetched, reranked_results) ==
    [fn |-> "query_similar_chunks", format |-> format, top_k |-> top_k,
     topk |-> topk, candidates |-> cands,
     fetch_calls |-> FetchCalls(format), fetched |-> fetched,
     raised |-> FALSE,
     reranked_results |-> reranked_results,
     ranked |-> Ranked(reranked_results, top_k),
     ids |-> RerankTail(reranked_results, top_k)]

\* One call of query_similar_chunks: get_top_k returned nothing, a list of
\* ints (the vectors are then fetched: some rows may be gone, or the fetch
\* may fail) or a list of (id, similarity) tuples; reranked_results is what
\* the filter starts from.
query_similar_chunks_call ==
    /\ Quiescent
    /\ \E top_k \in 0..(MaxTopK + 1) :
       \E cands \in get_top_k(OverFetch(top_k)) :
         IF NoCandidates(cands)
         THEN call' = QueryReturn("empty", top_k, OverFetch(top_k), cands, {}, <<>>)
         ELSE
         \/ \E vectors \in [1..Len(cands) -> CandidateVectors],
               found \in SUBSET (1..Len(cands)), db_ok \in BOOLEAN :
              LET fetched == reranking_candidates(cands, vectors, found, db_ok)
              IN  /\ ~db_ok => found = {}
                  /\ call' = QueryReturn("ids", top_k, OverFetch(top_k), cands,
                                 { cands[i] : i \in IF db_ok THEN found ELSE {} },
                                 ManualRerank(QueryVector, fetched))
         \/ \E sims \in [1..Len(cands) -> SimLevels] :
              call' = QueryReturn("tuples", top_k, OverFetch(top_k), cands, {},
                          TupleResults([i \in 1..Len(cands) |-> << cands[i], sims[i] >>]))
    /\ UNCHANGED <<documents, document_chunks, next_document_id,
                   next_chunk_id, lsh_index, written, up, ix, qr, hu, cl, em>>

\* The call has returned to its caller.
call_return ==
    /\ call # NoCall
    /\ call' = NoCall
    /\ UNCHANGED <<documents, document_chunks, next_document_id,
                   next_chunk_id, lsh_index, written, up, ix, qr, hu, cl, em>>

NextStore ==
    \/ handle_upload_call
    \/ handle_upload_embed
    \/ preload_documents_embed
    \/ handle_upload_insert_document
    \/ handle_upload_insert_chunks
    \/ handle_upload_return
    \/ handle_upload_returned
    \/ handle_clear_session
    \/ handle_clear_session_return
    \/ index_documents_scan
    \/ index_documents_batch
    \/ index_documents_mark
    \/ index_documents_return
    \/ DropBucketStore

Next ==
    \/ NextStore
    \/ GetContextChunks
    \/ GetContextChunksReturn

\* The writers alone (ingestion, clearing, indexing, bucket-store loss).
SpecStore == Init /\ [][NextStore]_vars
\* The writers and retrieval.
Spec == Init /\ [][Next]_vars

\* The writers when index_documents is run again and again (the build
\* script, or a scheduler around it) and failure-free runs keep occurring:
\* again and again a run reaches its return statement, having met no
\* exception in its scan, its lsh.index calls and its marks. A finished
\* run returns and a finished clear returns.
SpecRepeatedScans ==
    /\ SpecStore
    /\ []<>(ix.pc = "done")
    /\ WF_vars(index_documents_return)
    /\ WF_vars(handle_clear_session_return)

NextCalls ==
    \/ chunk_text_call
    \/ embed_texts_call
    \/ query_similar_chunks_call
    \/ call_return
    \/ embed_enter
    \/ embed_attempt
    \/ embed_sleep
    \/ embed_leave

\* Single calls of chunk_text, embed_texts and query_similar_chunks, over
\* all their bounded inputs.
SpecCalls == Init /\ [][NextCalls]_vars

\* ===================================================================== claims
GroupIds(group) == [j \in 1..Len(group.chunks) |-> group.chunks[j][1]]
Answered == qr # NoQuery /\ qr.outcome = "ok"
DirectAnswers == search_similar_chunks(Embed(qr.question), qr.session_id, qr.top_k)

\* C1: with LSH mode on, every failure inside the LSH path (bucket store
\* unreachable, unexpected candidate format, failed vector fetch, failed
\* content fetch) ends in the direct search's answer for the same question,
\* session and top_k: the caller sees the direct path's result (or the direct
\* path's own failure), never an empty list standing in for it.
C1_LshFailureFallsBack ==
    (/\ qr # NoQuery
     /\ qr.outcome # "ValueError"
     /\ qr.use_lsh
     /\ qr.lsh \in {"get_top_k_raised", "malformed", "fetch_failed", "content_failed"})
    => (qr.outcome = "raise" \/ qr.rows \in DirectAnswers)

\* C2: when lsh.get_top_k raises, get_context_chunks with LSH on returns an
\* ordered result the direct search returns for the same query, session and
\* top_k in the same store state.
C2_ForcedBucketFailureEqualsDirect ==
    (Answered /\ qr.use_lsh /\ qr.lsh = "get_top_k_raised")
    => qr.rows \in DirectAnswers

C2_Witness ==
    /\ Answered /\ qr.use_lsh /\ qr.lsh = "get_top_k_raised"
    /\ Len(qr.rows) = 2
    /\ lsh_index # {}

\* C3: with LSH mode on, a chunk of a not-yet-indexed document that the
\* direct search is bound to return among its top_k for this session is
\* also returned by get_context_chunks.
C3_UnindexedChunkStillRetrieved ==
    (Answered /\ qr.use_lsh)
    => \A c \in document_chunks :
          (/\ DocRow(c.document_id).lsh_indexed = FALSE
           /\ \A r \in DirectAnswers : c.id \in Range(r))
          => c.id \in Range(qr.rows)

\* C4: a query of session S never returns a chunk whose document belongs
\* to another session S', on the LSH path or on the direct path.
C4_ScopeIsolation ==
    Answered
    => \A i \in 1..Len(qr.rows) :
          LET d == DocRow(ChunkRow(qr.rows[i]).document_id)
          IN  d.session_id \in {qr.session_id, NULL}

\* C5: every chunk of a document flagged lsh_indexed has been written to
\* the LSH index by an lsh.index call that returned, and the flag of a
\* document never goes back from true to false.
C5_FlaggedChunksWritten ==
    \A d \in documents :
        d.lsh_indexed = TRUE => \A c \in ChunksOf(d.id) : c.id \in written

C5_FlagNeverCleared ==
    \A d \in documents : \A e \in documents' :
        (d.lsh_indexed = TRUE /\ e.id = d.id) => e.lsh_indexed = TRUE

\* C5: a document flagged lsh_indexed has every chunk written to the bucket
\* store by a successful lsh.index call, and the flag never goes back to FALSE.
C5_IndexedMeansAllChunksWritten ==
    [] C5_FlaggedChunksWritten /\ [][C5_FlagNeverCleared]_vars

C5_Witness ==
    \E d \in documents :
        /\ d.lsh_indexed = TRUE
        /\ Cardinality(ChunksOf(d.id)) > BATCH_SIZE

\* C6: a document whose processing was interrupted by a raising batch write
\* stays unflagged; the scan of a run returns every chunk of every unflagged
\* document, already written or not; and a document the run has finished
\* has had every one of its scanned chunks written by this run.
C6_NoPartialCredit ==
    (ix.pc = "failed" /\ ix.groups # <<>>)
    => \A d \in documents :
          d.id = ix.groups[ix.g].document_id => d.lsh_indexed = FALSE

C6_RunRewritesAll ==
    \A k \in 1..Len(ix.groups) :
        (k < ix.g \/ (k = ix.g /\ ix.pc \in {"mark", "done"}))
        => Range(GroupIds(ix.groups[k])) \subseteq Range(Flatten(ix.calls))

C6_ScanTakesWholeDocuments ==
    (ix.pc = "idle" /\ ix'.pc \in {"batch", "done"})
    => \A d \in documents :
          (d.lsh_indexed = FALSE /\ ChunksOf(d.id) # {})
          => \E k \in 1..Len(ix'.groups) :
                /\ ix'.groups[k].document_id = d.id
                /\ GroupIds(ix'.groups[k]) = ChunkIdSeq(d.id)

\* C6: a document whose indexing run was interrupted stays unflagged, and a
\* later scan takes all of its chunks again, written or not.
C6_InterruptedDocumentRetriedWhole ==
    /\ [] (C6_NoPartialCredit /\ C6_RunRewritesAll)
    /\ [][C6_ScanTakesWholeDocuments]_vars

\* a fresh scan holding a document of which an earlier, interrupted run
\* had written one chunk and not another
C6_Witness ==
    /\ ix.pc = "batch"
    /\ ix.calls = <<>>
    /\ \E k \in 1..Len(ix.groups) :
          /\ \E id \in Range(GroupIds(ix.groups[k])) : id \in written
          /\ \E id \in Range(GroupIds(ix.groups[k])) : id \notin written

\* C7: a run of index_documents started when every document that has
\* chunks is already flagged writes nothing to the bucket store, changes no
\* flag and returns 0.
C7_ScanOfIndexedStore ==
    (/\ ix.pc = "idle"
     /\ ix'.pc \in {"batch", "done"}
     /\ \A d \in documents : ChunksOf(d.id) # {} => d.lsh_indexed = TRUE)
    => /\ ix'.pc = "done"
       /\ ix'.ret = 0
       /\ ix'.calls = <<>>
       /\ lsh_index' = lsh_index
       /\ documents' = documents

\* C7: a scan of a store whose documents are all indexed returns 0 and
\* changes neither the bucket store nor the documents.
C7_ReindexingIsIdempotent == [][C7_ScanOfIndexedStore]_vars

C7_Witness ==
    /\ ix.pc = "done" /\ ix.ret = 0 /\ ix.calls = <<>>
    /\ \E d \in documents : d.lsh_indexed = TRUE /\ ChunksOf(d.id) # {}
    /\ \A d \in documents : ChunksOf(d.id) # {} => d.lsh_indexed = TRUE

\* C8: after the bucket store was dropped, a complete run of
\* index_documents (with no further drop since it started) leaves the
\* chunks of flagged documents back in the LSH index.
C8_RebuildAfterDrop ==
    (ix.pc = "done" /\ ~ix.dropped)
    => \A d \in documents :
          d.lsh_indexed = TRUE => \A c \in ChunksOf(d.id) : c.id \in lsh_index

\* C9: once an ingestion is over, failed or not, every document row has
\* its chunk rows: a failed ingestion leaves no document behind.
C9_AtomicIngestion ==
    up.pc = "idle" => \A d \in documents : ChunksOf(d.id) # {}

\* C10: an ingestion whose embedding count differs from its chunk count
\* ends with an error and stores neither a document nor a chunk; every
\* stored chunk carries the embedding of its own text.
C10_MismatchAborts ==
    (/\ up.pc = "embedded"
     /\ Len(up.chunks) # Len(up.embeddings)
     /\ up' # up)
    => /\ up'.pc = "idle"
       /\ up'.result = "count_mismatch"
       /\ documents' = documents
       /\ document_chunks' = document_chunks
       /\ next_document_id' = next_document_id

C10_OneEmbeddingPerChunk ==
    \A c \in document_chunks : c.embedding = Embed(c.content)

\* C10: an embedding count different from the chunk count aborts the
\* ingestion with nothing persisted; every stored chunk has its embedding.
C10_CountMismatchAbortsIngestion ==
    [] C10_OneEmbeddingPerChunk /\ [][C10_MismatchAborts]_vars

C10_Witness ==
    /\ up.pc = "idle"
    /\ up.result = "count_mismatch"
    /\ documents = {}
    /\ document_chunks = {}

\* C11 (as stated): when handle_upload returns, every file of
\* files[:MAX_FILES_PER_SESSION] has been attempted and success_count plus
\* the number of error messages is the number of files attempted.
C11_EveryFileAccounted ==
    hu.pc = "returned"
    => /\ hu.attempted = hu.files_to_process
       /\ hu.success_count + hu.errors = hu.attempted

\* A file that ends in an error adds one message, and the loop goes on.
C11_FailureIsOneMessage ==
    (/\ hu.pc = "loop"
     /\ up'.pc = "idle"
     /\ up'.result \in {"error", "count_mismatch"}
     /\ up' # up)
    => /\ hu'.pc = "loop"
       /\ hu'.errors = hu.errors + 1
       /\ hu'.success_count = hu.success_count
       /\ hu'.todo = hu.todo - 1

C11_NonEmptyAccounted ==
    (hu.pc = "returned" /\ hu.files_to_process > 0)
    => /\ hu.attempted = hu.files_to_process
       /\ hu.success_count + hu.errors = hu.attempted

\* C11 (amended): for a non-empty file list, a failing file adds exactly one
\* error message and the loop goes on; at the return every file of
\* files[:MAX_FILES_PER_SESSION] has been attempted and success_count plus
\* the number of error messages is the number of files attempted.
C11_ErrorsCollectedPerFile ==
    [] C11_NonEmptyAccounted /\ [][C11_FailureIsOneMessage]_vars

\* C11 witness: a call of two files has returned, one file failed and the
\* last one was stored.
C11_Witness ==
    /\ hu.pc = "returned"
    /\ hu.files_to_process = MAX_FILES_PER_SESSION
    /\ hu.success_count = 1
    /\ hu.errors = 1
    /\ up.result = "ok"

\* C12: a clear_session_documents(S) that returns has deleted exactly the
\* documents of session S and their chunks, has returned their number, and
\* has left every other document and chunk row as it was.
C12_ClearStep ==
    (cl = NoClear /\ cl' # NoClear /\ cl'.outcome = "ok")
    => LET S == cl'.session_id
       IN  /\ documents' = { d \in documents : d.session_id # S }
           /\ document_chunks' =
                 { c \in document_chunks :
                     \A d \in documents : d.id = c.document_id => d.session_id # S }
           /\ cl'.deleted_count =
                 Cardinality({ d \in documents : d.session_id = S })

\* C12: clear_session_documents deletes exactly the session's documents and
\* chunks and returns the number of documents deleted.
C12_ClearDeletesExactlyTheSession == [][C12_ClearStep]_vars

\* C12 witness: a clear has deleted a session's document while a shared
\* document and its chunks are still there.
C12_Witness ==
    /\ cl # NoClear
    /\ cl.outcome = "ok"
    /\ cl.deleted_count = 1
    /\ next_chunk_id > 2
    /\ \A d \in documents : d.session_id # cl.session_id
    /\ \E d \in documents : d.is_preloaded /\ ChunksOf(d.id) # {}

Tau == Hundredths(LSH_SIMILARITY_THRESHOLD)
Reranked == call.fn = "query_similar_chunks"

\* C14: in the list query_similar_chunks returns, candidates of equal
\* similarity stand in ascending order of chunk id, whatever order the
\* bucket store or the vector store handed them over in.
C14_TiesByAscendingId ==
    Reranked
    => \A i \in 1..(Len(call.ranked) - 1) :
          (/\ SimGE(call.ranked[i].sim, call.ranked[i + 1].sim)
           /\ SimGE(call.ranked[i + 1].sim, call.ranked[i].sim))
          => call.ranked[i].id < call.ranked[i + 1].id

\* C15: on the tuple path and on the manual-rerank path, a candidate whose
\* similarity is below the threshold is never returned, and one whose
\* similarity is at or above it is returned unless top_k candidates that
\* are at least as similar fill the result.
C15_ThresholdInclusive ==
    Reranked
    => \A j \in 1..Len(call.reranked_results) :
          LET c == call.reranked_results[j]
          IN  IF SimGE(c.sim, Tau)
              THEN \/ c.id \in Range(call.ids)
                   \/ /\ Len(call.ids) = call.top_k
                      /\ \A i \in 1..Len(call.ranked) :
                            SimGE(call.ranked[i].sim, c.sim)
              ELSE c.id \notin Range(call.ids)

\* C15 witness: the manual rerank kept a candidate whose cosine similarity
\* is exactly the threshold and dropped one below it.
C15_Witness ==
    /\ Reranked
    /\ call.format = "ids"
    /\ \E j \in 1..Len(call.reranked_results) :
          LET c == call.reranked_results[j]
          IN  SimGE(c.sim, Tau) /\ SimGE(Tau, c.sim) /\ c.id \in Range(call.ids)
    /\ \E j \in 1..Len(call.reranked_results) :
          LET c == call.reranked_results[j]
          IN  ~SimGE(c.sim, Tau) /\ c.id \notin Range(call.ids)

Chunked == call.fn = "chunk_text"
ValidParameters ==
    call.chunk_size > 0 /\ call.overlap >= 0 /\ call.overlap < call.chunk_size
WhitespaceOnly == \A i \in 1..Len(call.text) : call.text[i] = " "

\* C16: whatever the text, chunk_text raises and returns no chunk when
\* chunk_size <= 0 or overlap < 0 or overlap >= chunk_size.
C16_InvalidParametersRaise ==
    (Chunked /\ ~ValidParameters) => (call.raised /\ call.chunks = <<>>)

\* C17: with valid parameters chunk_text returns [] for an empty or
\* whitespace-only text of any length, and [text] for any other text of at
\* most chunk_size characters.
C17_BlankAndShortTexts ==
    (Chunked /\ ValidParameters)
    => /\ WhitespaceOnly => (~call.raised /\ call.chunks = <<>>)
       /\ (~WhitespaceOnly /\ Len(call.text) <= call.chunk_size)
            => (~call.raised /\ call.chunks = << call.text >>)

\* C17 witness: a whitespace-only text longer than chunk_size gave [].
C17_Witness ==
    /\ Chunked /\ ValidParameters
    /\ call.text = <<" ", " ", " ">>
    /\ call.chunk_size = 2
    /\ ~call.raised /\ call.chunks = <<>>

\* C18: with valid parameters and a non-blank text longer than chunk_size,
\* chunk_text returns exactly the windows text[k*step : k*step + chunk_size],
\* k = 0..last, step = chunk_size - overlap, last the smallest k whose
\* window reaches the end of the text; the last window ends at the end of
\* the text and starts inside it.
C18_SlidingWindows ==
    (Chunked /\ ValidParameters /\ ~WhitespaceOnly
        /\ Len(call.text) > call.chunk_size)
    => LET len == Len(call.text)
           step == call.chunk_size - call.overlap
           reaches(k) == k * step + call.chunk_size >= len
           last == CHOOSE k \in 0..len :
                      reaches(k) /\ \A j \in 0..(k - 1) : ~reaches(j)
           window(k) == [i \in 1..(Min(k * step + call.chunk_size, len) - k * step)
                            |-> call.text[k * step + i]]
       IN  /\ ~call.raised
           /\ Len(call.chunks) = last + 1
           /\ \A k \in 0..last : call.chunks[k + 1] = window(k)
           /\ last * step < len
           /\ last * step + Len(call.chunks[last + 1]) = len

\* C18 witness: chunk_text("Hello World", 5, 2) = ["Hello", "lo Wo", "World"]
C18_Witness ==
    /\ Chunked
    /\ call.text = HelloWorld /\ call.chunk_size = 5 /\ call.overlap = 2
    /\ call.chunks = << <<"H", "e", "l", "l", "o">>,
                        <<"l", "o", " ", "W", "o">>,
                        <<"W", "o", "r", "l", "d">> >>

\* C19: with valid parameters, every chunk but the last has chunk_size
\* characters and its last `overlap` characters are the first `overlap`
\* characters of the chunk after it.
C19_ConsecutiveChunksOverlap ==
    (Chunked /\ ValidParameters)
    => \A i \in 1..(Len(call.chunks) - 1) :
          /\ Len(call.chunks[i]) = call.chunk_size
          /\ Len(call.chunks[i + 1]) >= call.overlap
          /\ SubSeq(call.chunks[i], call.chunk_size - call.overlap + 1,
                    call.chunk_size)
               = SubSeq(call.chunks[i + 1], 1, call.overlap)

\* C19 witness: three or more chunks that overlap, the last one short, of
\* a text whose characters are not all the same.
C19_Witness ==
    /\ Chunked /\ ValidParameters
    /\ call.overlap >= 1
    /\ Len(call.chunks) >= 3
    /\ Len(call.chunks[Len(call.chunks)]) < call.chunk_size
    /\ \E i \in 1..Len(call.text) : call.text[i] # call.text[1]

\* C20: when no gateway call fails, embed_texts returns one vector per
\* input text, in input order, whatever the batches and response shapes.
C20_OneEmbeddingPerText ==
    call.fn = "embed_texts"
    => call.embeddings = [i \in 1..Len(call.texts) |-> Embed(call.texts[i])]

\* ------------------------------------------------------------------ C21
Retrying == em # NoEmbed
\* What the spec allows the loop to have done for one gateway call: the
\* attempts are numbered 0, 1, 2 from the start of the call, with a sleep
\* of RETRY_DELAY * 2^k after failed attempt k and before attempt k + 1,
\* no sleep after attempt MAX_RETRIES - 1 and nothing after a success.
C21_CallLog(L) ==
    /\ Len(L) <= 2 * MAX_RETRIES - 1
    /\ \A j \in 1..Len(L) :
          IF j % 2 = 1
          THEN /\ L[j].ev = "attempt"
               /\ L[j].attempt = (j - 1) \div 2
               /\ L[j].ok => j = Len(L)
          ELSE /\ L[j].ev = "sleep"
               /\ ~L[j - 1].ok
               /\ L[j].delay = RETRY_DELAY * (2 ^ ((j - 2) \div 2))
               /\ L[j].delay \in {1, 2}
C21_Failures(L) == Cardinality({ j \in 1..Len(L) : L[j].ev = "attempt" /\ ~L[j].ok })

\* C21: on the remote gateway path each embedding call (embed_query's, and
\* each batch's in embed_texts) is attempted at most MAX_RETRIES = 3 times
\* and not again after its first success; failed attempt k is followed by a
\* sleep of RETRY_DELAY * 2^k seconds (1, then 2) and the last attempt by
\* none; the call raises only after three failures in a row of one gateway
\* call; every batch starts again at attempt 0; a batch that uses up its
\* attempts ends the whole call with no result at all, and a call that
\* returns has had every batch answered.
C21_BoundedRetriesWithBackoff ==
    Retrying =>
        /\ \A b \in 1..Len(em.log) : C21_CallLog(em.log[b])
        /\ \A b \in 1..(Len(em.log) - 1) :
              em.log[b] # <<>> /\ em.log[b][Len(em.log[b])].ok
        /\ em.pc = "raised" =>
              /\ C21_Failures(em.log[Len(em.log)]) = MAX_RETRIES
              /\ Len(em.log[Len(em.log)]) = 2 * MAX_RETRIES - 1
              /\ em.result = <<>>
        /\ em.pc = "returned" =>
              /\ Len(em.log) = Len(em.batches)
              /\ em.log[Len(em.log)][Len(em.log[Len(em.log)])].ok
              /\ em.result # <<>>
        /\ em.pc \in {"attempt", "sleep"} => em.result = <<>>

\* embed_texts: the first batch was answered at its second attempt and the
\* second batch failed three times, so the call raised.
C21_Witness ==
    /\ Retrying
    /\ em.fn = "embed_texts"
    /\ em.pc = "raised"
    /\ Len(em.log) = 2
    /\ Len(em.log[1]) = 3
    /\ em.all_embeddings # <<>>

\* ------------------------------------------------------------------ C22
\* C22: the calls to the vector store and the bucket store are retried
\* with the shared backoff policy, so an operation fails on a store call
\* only after that call has been attempted the maximum number of times.
C22_StoreCallsRetried ==
    ix.pc = "failed" => ix.attempts = MAX_RETRIES

\* ------------------------------------------------------------------ C23
DocIds == 1..MaxDocs
ScannedDocs == { ix.groups[k].document_id : k \in 1..Len(ix.groups) }
\* A step of the run after its scan (an lsh.index call or a mark) leaves
\* every document that is not in the scan's result, among them every
\* document committed after the scan, as it is: flag and bucket entries.
C23_RunStep ==
    (ix.pc \in {"batch", "mark"} /\ ix' # ix) =>
        \A d \in documents :
            d.id \notin ScannedDocs =>
                /\ d \in documents'
                /\ \A c \in ChunksOf(d.id) :
                      /\ c.id \in lsh_index' => c.id \in lsh_index
                      /\ c.id \in written' => c.id \in written
\* A scan returns all the chunks of every document that is not flagged,
\* in chunk_index order.
C23_NextScan ==
    (ix.pc = "idle" /\ ix'.pc \in {"batch", "done"}) =>
        \A d \in documents :
            (d.lsh_indexed # TRUE /\ ChunksOf(d.id) # {}) =>
                \E k \in 1..Len(ix'.groups) :
                    /\ ix'.groups[k].document_id = d.id
                    /\ GroupIds(ix'.groups[k]) = ChunkIdSeq(d.id)
C23_Pending(id) ==
    DocExists(id) /\ DocRow(id).lsh_indexed # TRUE /\ ChunksOf(id) # {}
C23_Settled(id) == DocExists(id) => DocRow(id).lsh_indexed = TRUE

\* C23: whatever the interleaving of ingestion with a running
\* index_documents, a document whose chunks are committed after the run's
\* scan is neither written to the bucket store nor marked by that run, the
\* next scan returns all its chunks, and under repeated failure-free runs
\* every ingested document is eventually marked indexed or deleted.
C23_LateDocumentsWaitForNextScan ==
    /\ [][C23_RunStep /\ C23_NextScan]_vars
    /\ \A id \in DocIds : C23_Pending(id) ~> C23_Settled(id)

\* A run is past its scan and the store holds an unflagged document with
\* chunks that the scan did not return.
C23_Witness ==
    /\ ix.pc \in {"batch", "mark"}
    /\ \E d \in documents :
          /\ d.id \notin ScannedDocs
          /\ d.lsh_indexed = FALSE
          /\ ChunksOf(d.id) # {}
          /\ \E c \in ChunksOf(d.id) : c.id \notin lsh_index

\* ------------------------------------------------------------------ C24
\* C24: query_similar_chunks always asks the bucket store for the fixed
\* over-fetch of candidates, whatever top_k is, and so returns at most
\* min(top_k, over-fetch) ids, for every top_k >= 0.
C24_FixedOverFetch ==
    Reranked =>
        /\ call.topk = OVERFETCH
        /\ Len(call.candidates) <= OVERFETCH
        /\ Len(call.ids) <= Min(call.top_k, OVERFETCH)

\* top_k is larger than the over-fetch and the over-fetch is what caps
\* the answer.
C24_Witness ==
    /\ Reranked
    /\ call.top_k > OVERFETCH
    /\ Len(call.ids) = OVERFETCH

\* ------------------------------------------------------------------ C25
ManuallyReranked == Reranked /\ call.format = "ids"
C25_Above == { i \in 1..Len(call.reranked_results) :
                 SimGE(call.reranked_results[i].sim, Tau) }
\* C25: on the manual rerank, candidates whose vector could not be fetched
\* (the row is gone, or the fetch failed) are dropped without an exception
\* and the query goes on with the others: the reranked candidates are
\* exactly the fetched ones, every returned id is one of them, and as many
\* of those at or above the threshold are returned as top_k allows.
C25_UnfetchedCandidatesDropped ==
    ManuallyReranked =>
        /\ ~call.raised
        /\ { call.reranked_results[i].id : i \in 1..Len(call.reranked_results) }
              = call.fetched
        /\ Len(call.reranked_results) = Cardinality(call.fetched)
        /\ Range(call.ids) \subseteq call.fetched
        /\ Len(call.ids) = Min(call.top_k, Cardinality(C25_Above))

\* One candidate's vector was fetched and it is returned, another's was not.
C25_Witness ==
    /\ ManuallyReranked
    /\ call.ids # <<>>
    /\ \E id \in Range(call.candidates) : id \notin call.fetched

\* ------------------------------------------------------------------ C27
\* C27: when the bucket store returns no candidates query_similar_chunks
\* returns the empty list, without raising and without fetching any vector.
C27_NoCandidatesNoFetch ==
    (Reranked /\ call.candidates = <<>>) =>
        /\ ~call.raised
        /\ call.ids = <<>>
        /\ call.fetch_calls = 0
        /\ call.fetched = {}

C27_Witness ==
    /\ Reranked
    /\ call.candidates = <<>>
    /\ call.top_k > 0
    /\ call.format = "empty"

\* ------------------------------------------------------------------ C26
\* C26 (its last part): a run of index_documents that is given a session
\* scans, and so writes and marks, the documents of that session only.
C26_SessionScan ==
    (ix.pc = "idle" /\ ix'.pc = "batch" /\ ix'.session_id # NULL) =>
        \A k \in 1..Len(ix'.groups) :
            DocRow(ix'.groups[k].document_id).session_id = ix'.session_id
C26_SessionRunScoped == [][C26_SessionScan]_vars

\* ------------------------------------------------------------------ C28
\* Bucket-store entries whose chunk row is gone: clear_session_documents
\* deletes rows (chunks by cascade) and never touches the bucket store.
StaleEntries == { id \in lsh_index : ~ChunkExists(id) }
\* C28: once clear_session_documents has deleted a document, no retrieval
\* on either path returns one of its chunks, although its bucket-store
\* entries stay: every row that a retrieval returns is a chunk that is in
\* the vector store, of a document that is there, at that moment.
C28_DeletedChunksNeverReturned ==
    Answered =>
        \A i \in 1..Len(qr.rows) :
            /\ ChunkExists(qr.rows[i])
            /\ DocExists(ChunkRow(qr.rows[i]).document_id)
            /\ qr.rows[i] \notin StaleEntries

\* An LSH-path retrieval that returned rows while the bucket store still
\* named chunks of a deleted document.
C28_Witness ==
    /\ Answered
    /\ qr.use_lsh
    /\ qr.lsh = "ok"
    /\ qr.rows # <<>>
    /\ StaleEntries # {}

\* ------------------------------------------------------------------ C29
\* ids of the chunks that a scan made now, over all sessions, would return
C29_NextScanIds == { r[1] : r \in Range(get_unindexed_chunks(NULL)) }
C29_RunFailed == ix.pc = "failed" /\ ix.groups # <<>>
\* The run that failed at document number ix.g of its scan: the documents
\* before it are marked, it and the documents after it are not, and a new
\* scan returns all their chunks.
C29_AfterFailure ==
    /\ ix.attempts > 0 => ix.pc = "failed"
    /\ C29_RunFailed =>
          \A k \in 1..Len(ix.groups) :
             LET id == ix.groups[k].document_id
             IN  DocExists(id) =>
                    IF k < ix.g
                    THEN DocRow(id).lsh_indexed = TRUE
                    ELSE /\ DocRow(id).lsh_indexed = FALSE
                         /\ \A c \in ChunksOf(id) : c.id \in C29_NextScanIds
\* A failed run does nothing more: it only hands the exception to its
\* caller.
C29_FailedRunStops ==
    ix.pc = "failed" =>
        /\ ix'.pc \in {"failed", "idle"}
        /\ written' = written
        /\ \A d \in documents : \A e \in documents' :
              d.id = e.id => d.lsh_indexed = e.lsh_indexed

\* C29: when a bucket-store write or the mark fails for a document during
\* index_documents the run stops there and the exception reaches the
\* caller; the documents the run had finished stay marked, the failing
\* document and the documents after it stay unmarked and the next run
\* picks them up.
C29_FailureStopsRunKeepsProgress ==
    /\ []C29_AfterFailure
    /\ [][C29_FailedRunStops]_vars

\* The run scanned two documents and failed at one of them, and both are
\* still in the store.
C29_Witness ==
    /\ C29_RunFailed
    /\ Len(ix.groups) = 2
    /\ \A k \in 1..2 : DocExists(ix.groups[k].document_id)
    /\ written # {}

\* ------------------------------------------------------------------ C30
\* C30: with valid parameters and a non-blank text longer than chunk_size,
\* chunk_text terminates and its chunks cover the text without a gap:
\* every chunk is non-empty, every chunk but the last has exactly
\* chunk_size characters, the last chunk has more than `overlap`
\* characters and ends at the last character of the text, and every
\* position of the text lies in a chunk (chunk k starting step = chunk_size
\* - overlap characters after chunk k - 1).
C30_ChunksCoverText ==
    (Chunked /\ ValidParameters /\ ~WhitespaceOnly
        /\ Len(call.text) > call.chunk_size)
    => LET n == Len(call.chunks)
           off(k) == (k - 1) * (call.chunk_size - call.overlap)
       IN  /\ ~call.raised
           /\ n >= 1
           /\ \A k \in 1..n : Len(call.chunks[k]) > 0
           /\ \A k \in 1..(n - 1) : Len(call.chunks[k]) = call.chunk_size
           /\ Len(call.chunks[n]) > call.overlap
           /\ off(n) + Len(call.chunks[n]) = Len(call.text)
           /\ \A pos \in 1..Len(call.text) :
                 \E k \in 1..n :
                    /\ off(k) < pos
                    /\ pos <= off(k) + Len(call.chunks[k])
                    /\ call.chunks[k][pos - off(k)] = call.text[pos]

\* chunk_text("Hello World", 4, 1) = ["Hell", "lo W", "Worl", "ld"]
C30_Witness ==
    /\ Chunked
    /\ call.text = HelloWorld /\ call.chunk_size = 4 /\ call.overlap = 1
    /\ Len(call.chunks) = 4
    /\ call.chunks[4] = <<"l", "d">>

====
